---- MODULE Spec2Model ----
(***************************************************************************)
(* Model of the sprite animation state machine of chapter_3.rs:            *)
(* SpritesheetAnimation / SpritesheetAnimator (new, set_state), the Bevy   *)
(* systems animate_sprites and player_input, and the setup startup system. *)
(*                                                                         *)
(* Representation:                                                         *)
(*  - a state name (Rust String) is a sequence of one-character strings,   *)
(*    so starts_with("move") and the slice [4..] are computed;             *)
(*  - Time::delta is counted in units of 1/TicksPerSecond second, and a     *)
(*    Timer counts nanoseconds as std::time::Duration does; an fps value   *)
(*    is an integer and 1.0 / fps is the f32 quotient, turned into         *)
(*    nanoseconds as Duration::from_secs_f32 does;                         *)
(*  - a direction component is counted in hundredths (0.71 is 71) and a    *)
(*    position in 1/(100 * TicksPerSecond) pixel, so that                  *)
(*    move_dir * move_speed * time_delta is an exact integer.              *)
(***************************************************************************)
EXTENDS Integers, Sequences, FiniteSets, TLC

\* ------------------------------------------------------------------ bounds

\* The largest time.delta() of one frame, in time units.
MaxDelta == 4
\* The game loop is followed while the entity is within this distance of the
\* origin on both axes at the start of a frame.
MaxTravel == 0
\* ... and while the timer has run out at most this many times since it was
\* built.
MaxExpired == 2
\* The shipped player is followed on eight lines through the origin, this
\* many time units of travel long, with time steps of at most MaxStep.
MaxWalk == 4
MaxStep == 1
\* A held direction is followed for this many time units of travel.
MaxHold == 24

\* ------------------------------------------------------------ state names

MOVE == <<"m", "o", "v", "e">>
STAND == <<"s", "t", "a", "n", "d">>
DASH == <<"-">>
DOWN == <<"d", "o", "w", "n">>
UP == <<"u", "p">>
LEFT == <<"l", "e", "f", "t">>
RIGHT == <<"r", "i", "g", "h", "t">>

\* The eight direction suffixes, each with its leading dash.
Suffixes ==
    { DASH \o DOWN, DASH \o DOWN \o DASH \o LEFT, DASH \o LEFT,
      DASH \o UP \o DASH \o LEFT, DASH \o UP, DASH \o UP \o DASH \o RIGHT,
      DASH \o RIGHT, DASH \o DOWN \o DASH \o RIGHT }

\* The empty string: facing = "".
EMPTY == << >>

\* ------------------------------------------------- SpritesheetAnimation

DEFAULT_ANIMATION_FPS == 5

\* Units of Time::delta per second: the frame period at the default fps is
\* about two units, so one unit is 0.1 s.
TicksPerSecond == 2 * DEFAULT_ANIMATION_FPS

\* The resolution of std::time::Duration.
NanosPerSecond == 1000000000
NanosPerTick == NanosPerSecond \div TicksPerSecond

from_frames(frames) ==
    [frames |-> frames, fps |-> DEFAULT_ANIMATION_FPS, looping |-> "Looping"]

\* The table setup passes to SpritesheetAnimator::new.
PlayerTable ==
    (STAND \o DASH \o DOWN :> from_frames(<<1>>))
    @@ (STAND \o DASH \o DOWN \o DASH \o LEFT :> from_frames(<<4>>))
    @@ (STAND \o DASH \o LEFT :> from_frames(<<7>>))
    @@ (STAND \o DASH \o UP \o DASH \o LEFT :> from_frames(<<10>>))
    @@ (STAND \o DASH \o UP :> from_frames(<<13>>))
    @@ (STAND \o DASH \o UP \o DASH \o RIGHT :> from_frames(<<-10>>))
    @@ (STAND \o DASH \o RIGHT :> from_frames(<<-7>>))
    @@ (STAND \o DASH \o DOWN \o DASH \o RIGHT :> from_frames(<<-4>>))
    @@ (MOVE \o DASH \o DOWN :> from_frames(<<1, 2, 1, 3>>))
    @@ (MOVE \o DASH \o DOWN \o DASH \o LEFT :> from_frames(<<4, 5, 4, 6>>))
    @@ (MOVE \o DASH \o LEFT :> from_frames(<<7, 8, 7, 9>>))
    @@ (MOVE \o DASH \o UP \o DASH \o LEFT :> from_frames(<<10, 11, 10, 12>>))
    @@ (MOVE \o DASH \o UP :> from_frames(<<13, 14, 13, 15>>))
    @@ (MOVE \o DASH \o UP \o DASH \o RIGHT :> from_frames(<<-10, -11, -10, -12>>))
    @@ (MOVE \o DASH \o RIGHT :> from_frames(<<-7, -8, -7, -9>>))
    @@ (MOVE \o DASH \o DOWN \o DASH \o RIGHT :> from_frames(<<-4, -5, -4, -6>>))

PlayerStart == MOVE \o DASH \o DOWN

\* The number of cells of the atlas: TextureAtlas::from_grid(.., 15, 1, ..).
AtlasColumns == 15
AtlasRows == 1
AtlasLen == AtlasColumns * AtlasRows

\* Other tables a caller of SpritesheetAnimator::new can build from the public
\* fields of SpritesheetAnimation: both looping styles, several fps values
\* (zero and negative included), frame ids beyond the atlas, an empty list.
IDLE == <<"i", "d", "l", "e">>
SPIN == <<"s", "p", "i", "n">>
DIE == <<"d", "i", "e">>
ONE == <<"o", "n", "e">>
ZERO == <<"z", "e", "r", "o">>
NEG == <<"n", "e", "g">>
VOID == <<"v", "o", "i", "d">>
GAP == <<"g", "a", "p">>
NONEXISTENT == <<"n", "o", "n", "e">>

Animation(frames, fps, looping) ==
    [frames |-> frames, fps |-> fps, looping |-> looping]

TestTable ==
    (IDLE :> Animation(<<7>>, 5, "Looping"))
    @@ (SPIN :> Animation(<<16, 2, -3>>, 10, "Looping"))
    @@ (DIE :> Animation(<<4, -5, 6>>, 10, "Once"))
    @@ (ONE :> Animation(<<-17>>, 5, "Once"))
    @@ (ZERO :> Animation(<<1>>, 0, "Looping"))
    @@ (NEG :> Animation(<<1>>, -5, "Looping"))
    @@ (VOID :> Animation(<< >>, 5, "Looping"))
    @@ (GAP :> Animation(<< >>, 10, "Once"))

\* TestTable without its empty sequences: every frame list is non-empty.
SolidTable == [name \in DOMAIN TestTable \ {VOID, GAP} |-> TestTable[name]]

\* The (table, start state) pairs construction is tried with.
Configs ==
    { <<PlayerTable, PlayerStart>>,
      <<TestTable, IDLE>>, <<TestTable, ONE>>, <<TestTable, ZERO>>,
      <<TestTable, NEG>>, <<TestTable, NONEXISTENT>>,
      <<SolidTable, SPIN>> }

\* ------------------------------------------------------------------ Timer

Abs(n) == IF n < 0 THEN -n ELSE n

RECURSIVE Pow2(_)
Pow2(n) == IF n = 0 THEN 1 ELSE 2 * Pow2(n - 1)

\* num / den rounded to the nearest integer, a tie to the even one.
RoundHalfEven(num, den) ==
    LET q == num \div den
        r == num % den
    IN  IF 2 * r > den \/ (2 * r = den /\ q % 2 = 1) THEN q + 1 ELSE q

\* The exponent e, from e upwards, at which 2^e / fps has the 24 significant
\* bits of an f32: 2^23 <= 2^e / fps < 2^24.
RECURSIVE F32Exponent(_, _)
F32Exponent(fps, e) ==
    IF Pow2(e) \div fps >= Pow2(23) THEN e ELSE F32Exponent(fps, e + 1)

\* The f32 quotient 1.0 / fps, for fps > 0, as mantissa / 2^exponent.
F32Reciprocal(fps) ==
    LET e == F32Exponent(fps, 23)
    IN  [mantissa |-> RoundHalfEven(Pow2(e), fps), exponent |-> e]

\* whole + rest / den multiplied by 5^n, as whole and rest again.
RECURSIVE TimesPow5(_, _, _, _)
TimesPow5(whole, rest, den, n) ==
    IF n = 0 THEN [whole |-> whole, rest |-> rest]
    ELSE TimesPow5(5 * whole + (5 * rest) \div den, (5 * rest) % den, den,
                   n - 1)

\* Duration::from_secs_f32 of the f32 x = mantissa / 2^exponent, in
\* nanoseconds: x * 10^9 = mantissa * 5^9 / 2^(exponent - 9), rounded.
from_secs_f32(x) ==
    LET den == Pow2(x.exponent - 9)
        p == TimesPow5(x.mantissa \div den, x.mantissa % den, den, 9)
    IN  IF 2 * p.rest > den \/ (2 * p.rest = den /\ p.whole % 2 = 1)
        THEN p.whole + 1
        ELSE p.whole

\* The Duration of 1.0 / fps seconds, in nanoseconds, for the frame rates of
\* the tables: 200000003 at fps 5.
Periods ==
    [fps \in 1..(2 * DEFAULT_ANIMATION_FPS) |-> from_secs_f32(F32Reciprocal(fps))]

\* A negative fps gives a negative number of seconds, which no Duration holds.
SecondsPerFrame(fps) == IF fps > 0 THEN Periods[fps] ELSE -Periods[-fps]

\* A Timer::from_seconds that takes any number of seconds.
InvalidDuration_Never(fps) == FALSE

\* Duration::from_secs_f32, which Timer::from_seconds calls, panics on a
\* negative number of seconds.
InvalidDuration(fps) == fps < 0

\* Timer::from_seconds(seconds, TimerMode::Repeating)
from_seconds(seconds) ==
    [duration |-> seconds, elapsed |-> 0, finished |-> FALSE,
     times_finished_this_tick |-> 0]

\* Timer::tick of a repeating, unpaused timer, by delta units of Time::delta.
tick(timer, delta) ==
    LET elapsed == timer.elapsed + delta * NanosPerTick
        finished == elapsed >= timer.duration
        times == IF finished THEN elapsed \div timer.duration ELSE 0
    IN  [duration |-> timer.duration,
         elapsed |-> elapsed - timer.duration * times,
         finished |-> finished,
         times_finished_this_tick |-> times]

\* Timer::just_finished
just_finished(timer) == timer.times_finished_this_tick > 0

\* --------------------------------------------------- SpritesheetAnimator

\* The animator before SpritesheetAnimator::new has run.
NoAnimator ==
    [states |-> << >>, cur_state |-> EMPTY, cur_frame_idx |-> 0,
     timer |-> from_seconds(0)]

\* TextureAtlasSprite::default(), from SpriteSheetBundle { .., ..default() }.
DefaultSprite == [index |-> 0, flip_x |-> FALSE]

\* The panics of activating a sequence: the explicit fps check, and the
\* Duration that Timer::from_seconds(1.0 / fps, ..) cannot build.
ActivationPanics(anim) == anim.fps = 0 \/ InvalidDuration(anim.fps)

\* SpritesheetAnimator::new. The sprite is not an argument: new leaves the
\* render output alone.
new(table, start_state) ==
    IF start_state \in DOMAIN table
    THEN IF ActivationPanics(table[start_state])
         THEN [panic |-> TRUE, self |-> NoAnimator]
         ELSE [panic |-> FALSE,
               self |-> [states |-> table,
                         cur_state |-> start_state,
                         cur_frame_idx |-> 0,
                         timer |-> from_seconds(
                             SecondsPerFrame(table[start_state].fps))]]
    ELSE [panic |-> TRUE, self |-> NoAnimator]

\* ((*texture_idx).abs() - 1) as usize, for a frame id that is not zero.
TextureIndex(texture_idx) == Abs(texture_idx) - 1

\* A set_state that leaves the sprite to the next run of animate_sprites.
SetStateSprite_Deferred(sprite, frames) == sprite

\* The sprite as set_state writes it: no wrap by the atlas length here.
SetStateSprite(sprite, frames) ==
    IF Len(frames) > 0
    THEN [index |-> TextureIndex(frames[1]), flip_x |-> frames[1] < 0]
    ELSE sprite

\* A set_state that restarts the current animation when the name is unknown.
SetStateNone_Restarts(self, sprite) ==
    [panic |-> FALSE, ret |-> FALSE,
     self |-> [self EXCEPT !.cur_frame_idx = 0, !.timer.elapsed = 0],
     sprite |-> sprite]

\* The None arm of set_state (line 87): nothing is assigned.
SetStateNone(self, sprite) ==
    [panic |-> FALSE, ret |-> FALSE, self |-> self, sprite |-> sprite]

\* A set_state that leaves the frame position and the clock alone when the
\* requested state is the current one.
Activate_SkipsSameState(self, sprite, state_name, state) ==
    IF state_name = self.cur_state
    THEN [panic |-> FALSE, ret |-> TRUE, self |-> self, sprite |-> sprite]
    ELSE [panic |-> FALSE, ret |-> TRUE,
          self |-> [states |-> self.states,
                    cur_state |-> state_name,
                    cur_frame_idx |-> 0,
                    timer |-> from_seconds(SecondsPerFrame(state.fps))],
          sprite |-> SetStateSprite(sprite, state.frames)]

\* A set_state that takes the sequence out of the table (HashMap::remove in
\* place of HashMap::get) to read it.
Activate_TakesEntry(self, sprite, state_name, state) ==
    [panic |-> FALSE, ret |-> TRUE,
     self |-> [states |-> [name \in DOMAIN self.states \ {state_name}
                             |-> self.states[name]],
               cur_state |-> state_name,
               cur_frame_idx |-> 0,
               timer |-> from_seconds(SecondsPerFrame(state.fps))],
     sprite |-> SetStateSprite(sprite, state.frames)]

\* The assignments of the Some arm of set_state (lines 76-85); the table
\* self.states is only read.
Activate(self, sprite, state_name, state) ==
    [panic |-> FALSE, ret |-> TRUE,
     self |-> [states |-> self.states,
               cur_state |-> state_name,
               cur_frame_idx |-> 0,
               timer |-> from_seconds(SecondsPerFrame(state.fps))],
     sprite |-> SetStateSprite(sprite, state.frames)]

\* SpritesheetAnimator::set_state. With fps = 0 the panic comes before any
\* assignment; with fps < 0 it comes from Timer::from_seconds, after cur_state
\* and cur_frame_idx were assigned and before timer and the sprite are.
set_state(table, self, sprite, state_name) ==
    IF state_name \in DOMAIN table
    THEN LET state == table[state_name] IN
         IF state.fps = 0
         THEN [panic |-> TRUE, ret |-> FALSE, self |-> self, sprite |-> sprite]
         ELSE IF InvalidDuration(state.fps)
         THEN [panic |-> TRUE, ret |-> FALSE,
               self |-> [self EXCEPT !.cur_state = state_name,
                                     !.cur_frame_idx = 0],
               sprite |-> sprite]
         ELSE Activate(self, sprite, state_name, state)
    ELSE SetStateNone(self, sprite)

\* ------------------------------------------------------- animate_sprites

\* A frame advance that steps past the last frame of the sequence.
NextFrameIdx_PastEnd(anim, cur_frame_idx) == cur_frame_idx + 1

\* A frame advance that stops at the last frame whatever the looping mode.
NextFrameIdx_NeverLoops(anim, cur_frame_idx) ==
    IF cur_frame_idx + 1 >= Len(anim.frames)
    THEN cur_frame_idx
    ELSE cur_frame_idx + 1

\* The index of the next frame (lines 184-191).
NextFrameIdx(anim, cur_frame_idx) ==
    IF cur_frame_idx + 1 >= Len(anim.frames)
    THEN IF anim.looping = "Looping" THEN 0 ELSE cur_frame_idx
    ELSE cur_frame_idx + 1

\* A sprite write that falls back to the first atlas cell when the sequence
\* has no frame at next_frame_idx.
AnimateSprite_Fallback(sprite, frames, next_frame_idx) ==
    IF next_frame_idx < Len(frames)
    THEN [index |-> TextureIndex(frames[next_frame_idx + 1]) % AtlasLen,
          flip_x |-> frames[next_frame_idx + 1] < 0]
    ELSE [index |-> 0, flip_x |-> FALSE]

\* The sprite as animate_sprites writes it for frame next_frame_idx
\* (0-based): frames.get(next_frame_idx) is None past the end of the list.
AnimateSprite(sprite, frames, next_frame_idx) ==
    IF next_frame_idx < Len(frames)
    THEN [index |-> TextureIndex(frames[next_frame_idx + 1]) % AtlasLen,
          flip_x |-> frames[next_frame_idx + 1] < 0]
    ELSE sprite

\* The body of the loop of animate_sprites for the one animated entity.
\* However often the timer finished during this tick, the frame advances once.
animate_sprites(table, self, sprite, delta) ==
    LET timer == tick(self.timer, delta) IN
    IF just_finished(timer)
    THEN IF self.cur_state \in DOMAIN table
         THEN LET anim == table[self.cur_state]
                  next_frame_idx == NextFrameIdx(anim, self.cur_frame_idx)
              IN  [self |-> [states |-> self.states,
                             cur_state |-> self.cur_state,
                             cur_frame_idx |-> next_frame_idx,
                             timer |-> timer],
                   sprite |-> AnimateSprite(sprite, anim.frames, next_frame_idx)]
         ELSE [self |-> [self EXCEPT !.timer = timer], sprite |-> sprite]
    ELSE [self |-> [self EXCEPT !.timer = timer], sprite |-> sprite]

\* The steps of one run of animate_sprites, in the order of its statements:
\* the tick of the clock (line 174), then, when the period ran out and the
\* sequence has a frame at the next index, the write of the render output
\* (lines 194-198).
AnimateSteps(table, self, delta) ==
    IF /\ just_finished(tick(self.timer, delta))
       /\ self.cur_state \in DOMAIN table
       /\ NextFrameIdx(table[self.cur_state], self.cur_frame_idx)
              < Len(table[self.cur_state].frames)
    THEN <<"tick", "render">>
    ELSE <<"tick">>

\* ---------------------------------------------------------- player_input

move_speed == 32

\* A snapshot of keyboard_input.pressed for the four arrow keys.
KeySnapshots == [left : BOOLEAN, up : BOOLEAN, right : BOOLEAN, down : BOOLEAN]

NoKeys == [left |-> FALSE, up |-> FALSE, right |-> FALSE, down |-> FALSE]

Facing(facing, x, y) == [facing |-> facing, move_dir |-> <<x, y>>]

\* A resolver that looks at the right key before the left key.
ResolveDirection_RightFirst(k) ==
    IF k.right
    THEN IF k.up THEN Facing(MOVE \o DASH \o UP \o DASH \o RIGHT, 71, 71)
         ELSE IF k.down THEN Facing(MOVE \o DASH \o DOWN \o DASH \o RIGHT, 71, -71)
         ELSE Facing(MOVE \o DASH \o RIGHT, 100, 0)
    ELSE IF k.left
    THEN IF k.up THEN Facing(MOVE \o DASH \o UP \o DASH \o LEFT, -71, 71)
         ELSE IF k.down THEN Facing(MOVE \o DASH \o DOWN \o DASH \o LEFT, -71, -71)
         ELSE Facing(MOVE \o DASH \o LEFT, -100, 0)
    ELSE IF k.up THEN Facing(MOVE \o DASH \o UP, 0, 100)
    ELSE IF k.down THEN Facing(MOVE \o DASH \o DOWN, 0, -100)
    ELSE Facing(EMPTY, 0, 0)

\* The if / else-if chain of lines 226-255; 0.71 is 71 hundredths.
ResolveDirection(k) ==
    IF k.left
    THEN IF k.up THEN Facing(MOVE \o DASH \o UP \o DASH \o LEFT, -71, 71)
         ELSE IF k.down THEN Facing(MOVE \o DASH \o DOWN \o DASH \o LEFT, -71, -71)
         ELSE Facing(MOVE \o DASH \o LEFT, -100, 0)
    ELSE IF k.right
    THEN IF k.up THEN Facing(MOVE \o DASH \o UP \o DASH \o RIGHT, 71, 71)
         ELSE IF k.down THEN Facing(MOVE \o DASH \o DOWN \o DASH \o RIGHT, 71, -71)
         ELSE Facing(MOVE \o DASH \o RIGHT, 100, 0)
    ELSE IF k.up THEN Facing(MOVE \o DASH \o UP, 0, 100)
    ELSE IF k.down THEN Facing(MOVE \o DASH \o DOWN, 0, -100)
    ELSE Facing(EMPTY, 0, 0)

\* str::starts_with
starts_with(s, prefix) ==
    Len(s) >= Len(prefix) /\ SubSeq(s, 1, Len(prefix)) = prefix

\* A stand state built from the slice [5..], which drops the dash as well.
StandState_DropsDash(cur_state) == STAND \o SubSeq(cur_state, 6, Len(cur_state))

\* A stand state built by putting "stand-" in front of the whole name.
StandState_KeepsMove(cur_state) == STAND \o DASH \o cur_state

\* "stand".to_string() + &cur_state[4..]
StandState(cur_state) == STAND \o SubSeq(cur_state, 5, Len(cur_state))

\* translation += move_dir * move_speed * time_delta (lines 259-263)
Integrate(translation, move_dir, delta) ==
    <<translation[1] + move_dir[1] * move_speed * delta,
      translation[2] + move_dir[2] * move_speed * delta>>

\* A player_input that calls set_state whenever a direction is resolved,
\* without comparing it with the current state.
Requested_EveryFrame(cur_state, facing) ==
    IF Len(facing) > 0
    THEN [called |-> TRUE, arg |-> facing]
    ELSE IF Len(facing) = 0 /\ starts_with(cur_state, MOVE)
    THEN [called |-> TRUE, arg |-> StandState(cur_state)]
    ELSE [called |-> FALSE, arg |-> EMPTY]

\* A player_input that, with no direction resolved, calls set_state in every
\* frame: with the stand state when moving, with the current state otherwise.
Requested_IdleRestarts(cur_state, facing) ==
    IF Len(facing) > 0 /\ cur_state # facing
    THEN [called |-> TRUE, arg |-> facing]
    ELSE IF Len(facing) = 0
    THEN [called |-> TRUE,
          arg |-> IF starts_with(cur_state, MOVE) THEN StandState(cur_state)
                  ELSE cur_state]
    ELSE [called |-> FALSE, arg |-> EMPTY]

\* The name player_input passes to set_state, or no call (lines 267-277).
Requested(cur_state, facing) ==
    IF Len(facing) > 0 /\ cur_state # facing
    THEN [called |-> TRUE, arg |-> facing]
    ELSE IF Len(facing) = 0 /\ starts_with(cur_state, MOVE)
    THEN [called |-> TRUE, arg |-> StandState(cur_state)]
    ELSE [called |-> FALSE, arg |-> EMPTY]

\* The steps of one run of player_input, in the order of its statements: the
\* direction is resolved (lines 226-255), the position is integrated
\* (lines 259-263), and then set_state is called, if it is (lines 267-277).
InputSteps(cur_state, k) ==
    IF Requested(cur_state, ResolveDirection(k).facing).called
    THEN <<"resolve", "integrate", "transition">>
    ELSE <<"resolve", "integrate">>

\* player_input for the one Player entity.
player_input(table, self, sprite, translation, k, delta) ==
    LET dir == ResolveDirection(k)
        req == Requested(self.cur_state, dir.facing)
        res == IF req.called
               THEN set_state(table, self, sprite, req.arg)
               ELSE [panic |-> FALSE, ret |-> FALSE, self |-> self,
                     sprite |-> sprite]
    IN  [self |-> res.self, sprite |-> res.sprite, panic |-> res.panic,
         translation |-> Integrate(translation, dir.move_dir, delta),
         called |-> req.called, arg |-> req.arg, ret |-> res.ret,
         facing |-> dir.facing, move_dir |-> dir.move_dir]

\* ------------------------------------------------------------------ state

VARIABLES
    states,          \* SpritesheetAnimator.states, the table given to new
    start_state,     \* the start state given to new
    phase,           \* "boot" before setup, then "running" or "panicked"
    cur_state,       \* SpritesheetAnimator.cur_state
    cur_frame_idx,   \* SpritesheetAnimator.cur_frame_idx
    timer,           \* SpritesheetAnimator.timer
    sprite,          \* TextureAtlasSprite: index and flip_x
    translation,     \* Transform.translation, x and y
    time_delta,      \* Time::delta of the current frame
    keyboard_input,  \* the keys pressed during the current frame
    ran,             \* the systems that have run in the current frame
    steps,           \* the steps taken in the current frame, in order
    last             \* the last operation, its arguments and its result

vars == <<states, start_state, phase, cur_state, cur_frame_idx, timer, sprite,
          translation, time_delta, keyboard_input, ran, steps, last>>

Systems == {"animate_sprites", "player_input"}

Self == [states |-> states, cur_state |-> cur_state,
         cur_frame_idx |-> cur_frame_idx, timer |-> timer]

Op(op, called, arg, ret, dir) ==
    [op |-> op, called |-> called, arg |-> arg, ret |-> ret,
     facing |-> dir.facing, move_dir |-> dir.move_dir]

NoDir == Facing(EMPTY, 0, 0)

Init ==
    /\ \E c \in Configs : states = c[1] /\ start_state = c[2]
    /\ phase = "boot"
    /\ cur_state = NoAnimator.cur_state
    /\ cur_frame_idx = NoAnimator.cur_frame_idx
    /\ timer = NoAnimator.timer
    /\ sprite = DefaultSprite
    /\ translation = <<0, 0>>
    /\ time_delta = 0
    /\ keyboard_input = NoKeys
    /\ ran = Systems
    /\ steps = << >>
    /\ last = Op("none", FALSE, EMPTY, FALSE, NoDir)

\* The startup system: builds the animator and spawns the player entity.
setup ==
    /\ phase = "boot"
    /\ LET r == new(states, start_state) IN
        /\ phase' = IF r.panic THEN "panicked" ELSE "running"
        /\ cur_state' = r.self.cur_state
        /\ cur_frame_idx' = r.self.cur_frame_idx
        /\ timer' = r.self.timer
        /\ last' = Op("new", TRUE, start_state, ~r.panic, NoDir)
    /\ sprite' = DefaultSprite
    /\ translation' = <<0, 0>>
    /\ UNCHANGED <<states, start_state, time_delta, keyboard_input, ran,
                   steps>>

InBox(p) == Abs(p[1]) <= MaxTravel /\ Abs(p[2]) <= MaxTravel

\* The nanoseconds the timer is behind the grid of Time::delta: each period
\* that runs out takes duration % NanosPerTick more than whole units.
Lag(t) == (NanosPerTick - (t.elapsed % NanosPerTick)) % NanosPerTick

OnTime(t) == Lag(t) <= MaxExpired * (t.duration % NanosPerTick)

\* A new frame of the game loop: the engine updates Time and Input<KeyCode>.
BeginFrame ==
    /\ phase = "running"
    /\ ran = Systems
    /\ InBox(translation)
    /\ OnTime(timer)
    /\ \E delta \in 0..MaxDelta, k \in KeySnapshots :
        /\ time_delta' = delta
        /\ keyboard_input' = k
    /\ ran' = {}
    /\ steps' = << >>
    /\ last' = Op("begin_frame", FALSE, EMPTY, FALSE, NoDir)
    /\ UNCHANGED <<states, start_state, phase, cur_state, cur_frame_idx, timer,
                   sprite, translation>>

\* The system animate_sprites, once per frame.
AnimateSprites ==
    /\ phase = "running"
    /\ "animate_sprites" \notin ran
    /\ LET r == animate_sprites(states, Self, sprite, time_delta) IN
        /\ states' = r.self.states
        /\ cur_state' = r.self.cur_state
        /\ cur_frame_idx' = r.self.cur_frame_idx
        /\ timer' = r.self.timer
        /\ sprite' = r.sprite
    /\ ran' = ran \cup {"animate_sprites"}
    /\ steps' = steps \o AnimateSteps(states, Self, time_delta)
    /\ last' = Op("animate_sprites", FALSE, EMPTY, FALSE, NoDir)
    /\ UNCHANGED <<start_state, phase, translation, time_delta,
                   keyboard_input>>

\* The system player_input, once per frame.
PlayerInput ==
    /\ phase = "running"
    /\ "player_input" \notin ran
    /\ LET r == player_input(states, Self, sprite, translation,
                             keyboard_input, time_delta) IN
        /\ phase' = IF r.panic THEN "panicked" ELSE "running"
        /\ states' = r.self.states
        /\ cur_state' = r.self.cur_state
        /\ cur_frame_idx' = r.self.cur_frame_idx
        /\ timer' = r.self.timer
        /\ sprite' = r.sprite
        /\ translation' = r.translation
        /\ last' = Op("player_input", r.called, r.arg, r.ret, r)
    /\ ran' = ran \cup {"player_input"}
    /\ steps' = steps \o InputSteps(cur_state, keyboard_input)
    /\ UNCHANGED <<start_state, time_delta, keyboard_input>>

\* The names set_state is called with directly: every key of the table and
\* one name that is no key of any table.
StateNames == DOMAIN states \cup {NONEXISTENT}

\* A direct call of SpritesheetAnimator::set_state, made between two frames.
SetState ==
    /\ phase = "running"
    /\ ran = Systems
    /\ \E state_name \in StateNames :
        LET r == set_state(states, Self, sprite, state_name) IN
        /\ phase' = IF r.panic THEN "panicked" ELSE "running"
        /\ states' = r.self.states
        /\ cur_state' = r.self.cur_state
        /\ cur_frame_idx' = r.self.cur_frame_idx
        /\ timer' = r.self.timer
        /\ sprite' = r.sprite
        /\ last' = Op("set_state", TRUE, state_name, r.ret, NoDir)
    /\ UNCHANGED <<start_state, translation, time_delta, keyboard_input, ran,
                   steps>>

Next == setup \/ BeginFrame \/ AnimateSprites \/ PlayerInput \/ SetState

Spec == Init /\ [][Next]_vars

\* ------------------------------------------------- the shipped player

\* The program as main builds it: the player's table, started in move-down,
\* with no caller of set_state other than player_input.
InitPlayer == Init /\ states = PlayerTable /\ start_state = PlayerStart

\* The eight lines through the origin the entity walks on, MaxWalk time
\* units of travel at full speed long in each coordinate.
OnTrack(p) ==
    /\ Abs(p[1]) <= MaxWalk * 100 * move_speed
    /\ Abs(p[2]) <= MaxWalk * 100 * move_speed
    /\ (p[1] = 0 \/ p[2] = 0 \/ Abs(p[1]) = Abs(p[2]))

\* A new frame of the game loop, with any time step up to MaxStep and any
\* keys that keep the entity on the lines of OnTrack.
BeginFrameOnTrack ==
    /\ phase = "running"
    /\ ran = Systems
    /\ OnTime(timer)
    /\ \E delta \in 0..MaxStep, k \in KeySnapshots :
        /\ OnTrack(Integrate(translation, ResolveDirection(k).move_dir, delta))
        /\ time_delta' = delta
        /\ keyboard_input' = k
    /\ ran' = {}
    /\ steps' = << >>
    /\ last' = Op("begin_frame", FALSE, EMPTY, FALSE, NoDir)
    /\ UNCHANGED <<states, start_state, phase, cur_state, cur_frame_idx, timer,
                   sprite, translation>>

NextPlayer == setup \/ BeginFrameOnTrack \/ AnimateSprites \/ PlayerInput

SpecPlayer == InitPlayer /\ [][NextPlayer]_vars

\* -------------------------------------------------- a held direction

\* The entity is within MaxHold time units of travel of the origin.
InReach(p) ==
    /\ Abs(p[1]) <= MaxHold * 100 * move_speed
    /\ Abs(p[2]) <= MaxHold * 100 * move_speed

\* A new frame of the game loop in which time advances and the keys, once
\* some are pressed, stay as they are; before that, the timer is OnTime.
BeginFrameHeld ==
    /\ phase = "running"
    /\ ran = Systems
    /\ \E delta \in 1..MaxStep, k \in KeySnapshots :
        /\ keyboard_input # NoKeys => k = keyboard_input
        /\ k = NoKeys => OnTime(timer)
        /\ InReach(Integrate(translation, ResolveDirection(k).move_dir, delta))
        /\ time_delta' = delta
        /\ keyboard_input' = k
    /\ ran' = {}
    /\ steps' = << >>
    /\ last' = Op("begin_frame", FALSE, EMPTY, FALSE, NoDir)
    /\ UNCHANGED <<states, start_state, phase, cur_state, cur_frame_idx, timer,
                   sprite, translation>>

NextHeld == setup \/ BeginFrameHeld \/ AnimateSprites \/ PlayerInput

\* App::run runs the schedule frame after frame, and each frame runs both
\* systems.
SpecHeld ==
    /\ InitPlayer /\ [][NextHeld]_vars
    /\ WF_vars(setup) /\ WF_vars(BeginFrameHeld)
    /\ WF_vars(AnimateSprites) /\ WF_vars(PlayerInput)

\* ----------------------------------------------------------------- claims

\* The duration is 1 / fps seconds, to the 24 significant bits of the f32
\* the program computes it in.
F32Precision == NanosPerSecond \div Pow2(23)

IsPeriod(duration, fps) == Abs(duration * fps - NanosPerSecond) <= F32Precision

\* The step is a call of set_state, made directly or by player_input.
CalledSetState == last'.op \in {"set_state", "player_input"} /\ last'.called

\* C1. Transition rejection: a call of set_state with a name that is no key of
\* the table returns false and leaves cur_state, cur_frame_idx, the timer
\* (its period and its phase) and the sprite (index, flip_x) as they were.
C1_TransitionRejection ==
    [][(CalledSetState /\ last'.arg \notin DOMAIN states)
       => /\ last'.ret = FALSE
          /\ phase' = "running"
          /\ UNCHANGED <<cur_state, cur_frame_idx, timer, sprite>>]_vars

\* A rejected direct call found the animation past its first frame and the
\* clock in the middle of a period, and both are still so.
C1_Witness ==
    /\ last.op = "set_state" /\ last.arg = NONEXISTENT /\ ~last.ret
    /\ cur_frame_idx > 0
    /\ timer.elapsed > 0

\* C2. Transition reset: a call of set_state with a key of the table whose fps
\* is positive, whatever the state and the frame position before and also when
\* the name is the current state, returns true and leaves cur_state = name,
\* cur_frame_idx = 0 and a timer with nothing elapsed and the period 1 / fps.
C2_TransitionReset ==
    [][(/\ CalledSetState
        /\ last'.arg \in DOMAIN states
        /\ states[last'.arg].fps > 0)
       => /\ last'.ret = TRUE
          /\ phase' = "running"
          /\ cur_state' = last'.arg
          /\ cur_frame_idx' = 0
          /\ timer'.elapsed = 0
          /\ timer'.times_finished_this_tick = 0
          /\ IsPeriod(timer'.duration, states[last'.arg].fps)]_vars

\* A successful direct call named the state that is current after it, whose
\* sequence has more than one frame and another period than the default.
C2_Witness ==
    /\ last.op = "set_state" /\ last.ret
    /\ last.arg = SPIN /\ cur_state = SPIN
    /\ cur_frame_idx = 0 /\ timer.elapsed = 0
    /\ timer.duration = SecondsPerFrame(states[SPIN].fps)
    /\ timer.duration < SecondsPerFrame(DEFAULT_ANIMATION_FPS)

\* The step is a run of animate_sprites, and Expirations is the number of
\* times the period of the repeating timer ran out during its tick.
Ticked == last'.op = "animate_sprites"
Expirations == timer'.times_finished_this_tick

\* C3. Looping invariant: in a Looping sequence of n frames every expiration
\* of the clock period moves the frame index one place forward, from n - 1
\* back to 0, so that n expirations from index 0 pass 1, 2, .., n - 1 in order
\* and end at 0: a tick during which the period ran out k times moves the
\* index k places round the cycle.
C3_LoopingInvariant ==
    [][(/\ Ticked
        /\ states[cur_state].looping = "Looping"
        /\ cur_frame_idx < Len(states[cur_state].frames))
       => cur_frame_idx' =
            (cur_frame_idx + Expirations) % Len(states[cur_state].frames)]_vars

\* C4. Freeze invariant: in a Once sequence of n frames, a tick that finds the
\* frame index at n - 1 leaves it there and leaves the sprite (index, flip_x)
\* as it was, however often the period ran out.
C4_FreezeInvariant ==
    [][(/\ Ticked
        /\ states[cur_state].looping = "Once"
        /\ Len(states[cur_state].frames) > 0
        /\ cur_frame_idx = Len(states[cur_state].frames) - 1)
       => /\ cur_frame_idx' = cur_frame_idx
          /\ sprite' = sprite]_vars

\* The rows of the priority table of the direction resolver, first match
\* first: the keys a row needs, its label and its vector in hundredths.
Row(keys, label, x, y) == [keys |-> keys, label |-> label, vec |-> <<x, y>>]

PriorityTable ==
    << Row({"left", "up"}, MOVE \o DASH \o UP \o DASH \o LEFT, -71, 71),
       Row({"left", "down"}, MOVE \o DASH \o DOWN \o DASH \o LEFT, -71, -71),
       Row({"left"}, MOVE \o DASH \o LEFT, -100, 0),
       Row({"right", "up"}, MOVE \o DASH \o UP \o DASH \o RIGHT, 71, 71),
       Row({"right", "down"}, MOVE \o DASH \o DOWN \o DASH \o RIGHT, 71, -71),
       Row({"right"}, MOVE \o DASH \o RIGHT, 100, 0),
       Row({"up"}, MOVE \o DASH \o UP, 0, 100),
       Row({"down"}, MOVE \o DASH \o DOWN, 0, -100),
       Row({}, EMPTY, 0, 0) >>

Pressed(k) == {key \in {"left", "up", "right", "down"} : k[key]}

FirstMatch(k) ==
    LET i == CHOOSE i \in 1..Len(PriorityTable) :
                /\ PriorityTable[i].keys \subseteq Pressed(k)
                /\ \A j \in 1..(i - 1) :
                     ~(PriorityTable[j].keys \subseteq Pressed(k))
    IN  PriorityTable[i]

\* C5. Direction priority: for each of the 16 key snapshots, player_input
\* resolves the label and the vector of the first row of the priority table
\* whose keys are all pressed; left wins over right and up over down.
C5_DirectionPriority ==
    last.op = "player_input"
    => /\ last.facing = FirstMatch(keyboard_input).label
       /\ last.move_dir = FirstMatch(keyboard_input).vec

\* All four keys were pressed and the resolver answered up-left.
C5_Witness ==
    /\ last.op = "player_input"
    /\ keyboard_input = [left |-> TRUE, up |-> TRUE, right |-> TRUE, down |-> TRUE]
    /\ last.facing = MOVE \o DASH \o UP \o DASH \o LEFT
    /\ last.move_dir = <<-71, 71>>

\* C6. Stand derivation: when player_input runs with no key pressed and the
\* current state is move-X, X one of the eight directions, it calls set_state
\* with stand-X, and afterwards the current state is stand-X at frame index 0.
C6_StandDerivation ==
    [][\A x \in Suffixes :
        (/\ last'.op = "player_input"
         /\ keyboard_input = NoKeys
         /\ cur_state = MOVE \o x)
        => /\ last'.called
           /\ last'.arg = STAND \o x
           /\ last'.ret = TRUE
           /\ cur_state' = STAND \o x
           /\ cur_frame_idx' = 0]_vars

\* player_input ran with no key pressed, asked for stand-up-left, and that is
\* the current state: the state before was move-up-left.
C6_Witness ==
    /\ last.op = "player_input"
    /\ keyboard_input = NoKeys
    /\ last.called /\ last.ret
    /\ last.arg = STAND \o DASH \o UP \o DASH \o LEFT
    /\ cur_state = STAND \o DASH \o UP \o DASH \o LEFT
    /\ cur_frame_idx = 0

\* C7. Fatal activation errors: new panics when the start state is no key of
\* the table; new and set_state panic when the fps of the sequence they
\* activate is zero or negative; a running animator has a current state whose
\* fps is positive; and the step that panics writes no sprite frame.
C7_FatalActivation ==
    [][/\ (last'.op = "new" /\ last'.arg \notin DOMAIN states)
            => phase' = "panicked"
       /\ (/\ last'.called
           /\ last'.arg \in DOMAIN states
           /\ states[last'.arg].fps <= 0)
            => phase' = "panicked"
       /\ phase' = "running"
            => cur_state' \in DOMAIN states /\ states[cur_state'].fps > 0
       /\ phase' = "panicked" => sprite' = sprite]_vars

\* A direct call of set_state with a state whose fps is negative panicked.
C7_Witness ==
    /\ phase = "panicked"
    /\ last.op = "set_state"
    /\ last.arg = NEG
    /\ states[NEG].fps < 0

\* The frame encoding of the specification: index = abs(frame) - 1 wrapped by
\* the number of atlas cells, flip = frame < 0.
Encoding(frame) ==
    [index |-> (Abs(frame) - 1) % AtlasLen, flip_x |-> frame < 0]

\* C8. Construction: after a successful new, before any tick or transition,
\* the current state is the start state, the frame index is 0, the period of
\* the clock is 1 / fps, and the sprite shows the first frame of the start
\* sequence: index = abs(frame) - 1, flip_x = frame < 0.
C8_Construction ==
    (last.op = "new" /\ last.ret)
    => /\ phase = "running"
       /\ cur_state = start_state
       /\ cur_frame_idx = 0
       /\ timer.elapsed = 0
       /\ IsPeriod(timer.duration, states[start_state].fps)
       /\ Len(states[start_state].frames) > 0
            => /\ sprite.index = Abs(states[start_state].frames[1]) - 1
               /\ sprite.flip_x = (states[start_state].frames[1] < 0)

\* C9. Frame encoding on every write: a successful set_state leaves the
\* sprite at the encoding of the first frame of the new sequence, an advance
\* of animate_sprites leaves it at the encoding of the frame at the new index,
\* both wrapped by the number of atlas cells, so the index of the sprite is
\* always smaller than that number.
C9_FrameEncoding ==
    [][/\ (/\ CalledSetState
           /\ last'.ret
           /\ Len(states[cur_state'].frames) > 0)
            => sprite' = Encoding(states[cur_state'].frames[1])
       /\ (/\ Ticked
           /\ Expirations > 0
           /\ cur_frame_idx' < Len(states[cur_state'].frames))
            => sprite' =
                 Encoding(states[cur_state'].frames[cur_frame_idx' + 1])
       /\ sprite'.index < AtlasLen]_vars

\* The frame index after k advances from idx, each one by the rule of tick:
\* one forward, and at the last frame back to 0 (Looping) or no move (Once).
RECURSIVE Advance(_, _, _)
Advance(anim, idx, k) ==
    IF k = 0
    THEN idx
    ELSE Advance(anim,
                 IF idx + 1 < Len(anim.frames) THEN idx + 1
                 ELSE IF anim.looping = "Looping" THEN 0
                 ELSE idx,
                 k - 1)

\* C10. Multiple expirations in one tick: a run of animate_sprites during
\* whose tick the period ran out k times advances the frame index k times,
\* one step per expiration, looping or freezing at each step.
C10_MultipleExpirations ==
    [][Ticked
       => cur_frame_idx' =
            Advance(states[cur_state], cur_frame_idx, Expirations)]_vars

\* Step a comes before step b in the current frame, when both were taken.
Before(a, b) ==
    \A i, j \in 1..Len(steps) : (steps[i] = a /\ steps[j] = b) => i < j

\* C11. Per-frame ordering: the steps of a frame come in the order resolve
\* direction, state transition, movement integration, clock tick, render
\* output: the tick never comes before the direction resolution or the
\* transition of its frame, nor the integration before the transition.
C11_FrameOrdering ==
    /\ Before("resolve", "transition")
    /\ Before("transition", "integrate")
    /\ Before("integrate", "tick")
    /\ Before("tick", "render")
    /\ Before("resolve", "tick")
    /\ Before("transition", "tick")

AllNonEmpty(table) == \A name \in DOMAIN table : Len(table[name].frames) > 0

\* C12. Controller data invariant: over a table whose sequences are all
\* non-empty, after a successful construction and any ticks and set_state
\* calls (successful or rejected), cur_state is a key of the table and
\* 0 <= cur_frame_idx < len(table[cur_state].frames).
C12_DataInvariant ==
    (phase = "running" /\ AllNonEmpty(states))
    => /\ cur_state \in DOMAIN states
       /\ 0 <= cur_frame_idx
       /\ cur_frame_idx < Len(states[cur_state].frames)

\* Over a table without empty sequences, a tick whose period ran out left a
\* Once sequence of three frames at its last index.
C12_Witness ==
    /\ phase = "running" /\ AllNonEmpty(states)
    /\ last.op = "animate_sprites"
    /\ timer.times_finished_this_tick > 0
    /\ cur_state = DIE
    /\ cur_frame_idx = Len(states[DIE].frames) - 1

\* C13. Redundant transitions are suppressed: when player_input runs with a
\* key pressed and the label it resolves is the current state, it does not
\* call set_state, and cur_state, cur_frame_idx, the timer and the sprite are
\* as they were: a held direction does not restart its animation.
C13_RedundantSuppressed ==
    [][(/\ last'.op = "player_input"
        /\ keyboard_input # NoKeys
        /\ FirstMatch(keyboard_input).label = cur_state)
       => /\ ~last'.called
          /\ UNCHANGED <<cur_state, cur_frame_idx, timer, sprite>>]_vars

\* player_input ran with the Down key held in state move-down, made no call,
\* and the animation is past its first frame.
C13_Witness ==
    /\ last.op = "player_input"
    /\ keyboard_input # NoKeys
    /\ last.facing = cur_state
    /\ ~last.called
    /\ cur_frame_idx > 0

\* C14. An empty frame list is a no-op on tick: when the current sequence has
\* no frames, a run of animate_sprites during which the period ran out does
\* not fail and leaves the sprite (index, flip_x) as it was, whether the
\* sequence is Looping or Once.
C14_EmptyFramesNoOp ==
    [][(/\ Ticked
        /\ Expirations > 0
        /\ Len(states[cur_state].frames) = 0)
       => /\ phase' = "running"
          /\ sprite' = sprite]_vars

\* The period of an empty Once sequence ran out while the sprite showed a
\* frame written earlier, which it still shows.
C14_Witness ==
    /\ last.op = "animate_sprites"
    /\ timer.times_finished_this_tick > 0
    /\ cur_state = GAP
    /\ Len(states[GAP].frames) = 0 /\ states[GAP].looping = "Once"
    /\ sprite # DefaultSprite

\* C15. The table is read-only after construction: no run of animate_sprites
\* or player_input and no call of set_state, successful, rejected or fatal,
\* adds, removes or changes an entry of the table.
C15_TableReadOnly == [][states' = states]_vars

\* A successful call of set_state was made on the test table, and the entry
\* it activated is still the one the table was built with.
C15_Witness ==
    /\ last.op = "set_state" /\ last.ret
    /\ last.arg = DIE
    /\ states = TestTable

\* C19. When no key is pressed and the current state does not start with
\* "move", a run of player_input leaves cur_state, cur_frame_idx, the timer,
\* the sprite and the position unchanged; and a system that leaves a stand
\* state runs in a frame in which some key is pressed.
C19_IdleStability ==
    [][/\ (/\ last'.op = "player_input" /\ keyboard_input = NoKeys
           /\ ~starts_with(cur_state, MOVE))
          => UNCHANGED <<cur_state, cur_frame_idx, timer, sprite, translation>>
       /\ (/\ last'.op \in Systems /\ starts_with(cur_state, STAND)
           /\ cur_state' # cur_state)
          => keyboard_input # NoKeys]_vars

\* player_input has run with no key pressed in a stand state whose timer had
\* already been advanced, and a positive time step.
C19_Witness ==
    /\ last.op = "player_input" /\ keyboard_input = NoKeys
    /\ starts_with(cur_state, STAND)
    /\ ~last.called
    /\ timer.elapsed > 0 /\ time_delta > 0

\* C16. Render consistency of the shipped player: in every state reached
\* after setup, whichever of player_input and animate_sprites runs first in
\* a frame, the sprite shows the frame at cur_frame_idx of cur_state:
\* index = abs(f) - 1 and flip_x = (f < 0).
C16_RenderConsistency ==
    phase = "running"
    => /\ cur_state \in DOMAIN states
       /\ cur_frame_idx < Len(states[cur_state].frames)
       /\ LET f == states[cur_state].frames[cur_frame_idx + 1] IN
           sprite = [index |-> Abs(f) - 1, flip_x |-> f < 0]

\* The player has walked up and right long enough for animate_sprites to
\* reach the last frame of move-up-right, the mirrored cell 11, in a frame in
\* which player_input had already run.
C16_Witness ==
    /\ phase = "running"
    /\ cur_state = MOVE \o DASH \o UP \o DASH \o RIGHT
    /\ cur_frame_idx = 3
    /\ sprite = [index |-> 11, flip_x |-> TRUE]
    /\ steps = <<"resolve", "integrate", "tick", "render">>

\* The 8 move-* and the 8 stand-* names.
PlayerNames ==
    {MOVE \o suffix : suffix \in Suffixes}
        \cup {STAND \o suffix : suffix \in Suffixes}

\* C17. Table closure of the shipped player: under every sequence of key
\* snapshots, each call of set_state that player_input makes names a key of
\* the table and returns true, the current state is one of the 8 move-* and
\* 8 stand-* names, and the stand name derived from a move state is a key of
\* the table.
C17_TableClosure ==
    phase # "boot"
    => /\ phase = "running"
       /\ (last.op = "player_input" /\ last.called)
          => (last.arg \in DOMAIN states /\ last.ret)
       /\ cur_state \in PlayerNames
       /\ PlayerNames = DOMAIN states
       /\ starts_with(cur_state, MOVE) => StandState(cur_state) \in DOMAIN states

\* player_input, with the keys released while the player was in
\* move-up-left, has called set_state with the derived name stand-up-left,
\* which returned true.
C17_Witness ==
    /\ last.op = "player_input" /\ last.called /\ last.ret
    /\ keyboard_input = NoKeys
    /\ last.arg = STAND \o DASH \o UP \o DASH \o LEFT
    /\ cur_state = last.arg

\* The keys are held and player_input has made the transition into the move
\* state they resolve to.
Held ==
    /\ phase = "running" /\ keyboard_input # NoKeys
    /\ cur_state = ResolveDirection(keyboard_input).facing

\* The time in which a sequence is certain to have shown each of its frames:
\* one period and one time step for every frame.
CycleTime(anim) ==
    Len(anim.frames) * (SecondsPerFrame(anim.fps) \div NanosPerTick + 1 + MaxStep)

\* The entity can travel for one more cycle of the current sequence.
Room ==
    /\ Abs(translation[1]) <= (MaxHold - CycleTime(states[cur_state])) * 100 * move_speed
    /\ Abs(translation[2]) <= (MaxHold - CycleTime(states[cur_state])) * 100 * move_speed

\* C18. Animation progress while a direction is held: when the same keys stay
\* pressed frame after frame and time advances, then after the transition
\* into the move state player_input never calls set_state again, and every
\* frame position 0..n-1 of the Looping sequence is shown again and again,
\* for as long as the direction is followed.
C18_HeldProgress ==
    /\ [][(Held /\ last'.op = "player_input") => ~last'.called]_vars
    /\ \A i \in 0..3 : (Held /\ Room) ~> (Held /\ cur_frame_idx = i)

\* While the keys were held, animate_sprites has wrapped from the last frame
\* of the move sequence back to frame 0.
C18_Witness ==
    /\ Held /\ last.op = "animate_sprites"
    /\ just_finished(timer) /\ cur_frame_idx = 0
    /\ Len(states[cur_state].frames) = 4

====
